---- MODULE Spec2Model ----
(***************************************************************************)
(* Model of src/app.py, the NYC taxi dashboard: the loader that normalizes *)
(* the cleaned trip file, the filter, the aggregators and the script       *)
(* main() that strings them together on every run of the page.             *)
(*                                                                         *)
(* A DataFrame is a sequence of row records; every row carries its index   *)
(* label in the field "index", as pandas keeps it through df[mask] and     *)
(* df.sample.  A timestamp is a number of minutes since 2024-01-01 00:00   *)
(* (a Monday; the dashboard is about January 2024).  A mean is an exact    *)
(* fraction in lowest terms, <<numerator, denominator>>.                   *)
(***************************************************************************)
EXTENDS Integers, Sequences, FiniteSets, TLC

VARIABLES
    pc,              \* position of the script run inside main()
    parquet,         \* rows of data/cleaned_taxi_data.parquet
    zones_csv,       \* rows of data/raw/taxi_zone_lookup.csv
    df_full,         \* main: df_full
    df_zones,        \* main: df_zones
    criteria,        \* main: start_date, end_date, hour_min, hour_max, selected_payments
    df,              \* main: df, the filtered view
    warned,          \* st.warning("No data matches ...") was shown in this run
    invoked,         \* reductions and aggregators called in this run
    metrics,         \* the five key metrics
    top_zones,       \* main: top_zones
    fare_by_hour,    \* main: fare_by_hour
    df_sample,       \* main: df_sample
    payment_counts,  \* main: payment_counts
    heatmap_data,    \* main: heatmap_data
    np_random,       \* state of numpy's global random generator
    prev_view,       \* the filtered view of the previous run's distance sampling
    prev_sample      \* the sample the previous run's distance sampling drew

vars == <<pc, parquet, zones_csv, df_full, df_zones, criteria, df, warned,
          invoked, metrics, top_zones, fare_by_hour, df_sample,
          payment_counts, heatmap_data, np_random, prev_view, prev_sample>>

(***************************************************************************)
(* Bounds of the model.                                                    *)
(***************************************************************************)
MaxRows == 3        \* rows of a trip file drawn as input
MaxFilterRows == 2  \* rows of a trip file drawn as input of apply_filters alone
MaxLoadRows == 2    \* rows of a trip file drawn as input of the loader alone
MaxDay == 6         \* pickup days 0..MaxDay of the loader's inputs
MaxCode == 7        \* payment type codes 0..MaxCode of the loader's inputs
MaxFilterDay == 1   \* pickup days and filter dates 0..MaxFilterDay
MaxLoc == 11        \* pickup location ids 1..MaxLoc
MaxExtra == 2       \* trips appended to a view with one trip per location
MaxZoneRows == 2    \* rows of the zone lookup drawn as input

(***************************************************************************)
(* Generic helpers.                                                        *)
(***************************************************************************)
NaN == "NaN"

Range(s) == {s[i] : i \in 1..Len(s)}

Min(a, b) == IF a <= b THEN a ELSE b

\* the sum of a sequence of integers
RECURSIVE SeqSum(_)
SeqSum(s) == IF s = <<>> THEN 0 ELSE Head(s) + SeqSum(Tail(s))

RECURSIVE GCD(_, _)
GCD(a, b) == IF b = 0 THEN a ELSE GCD(b, a % b)

\* the exact quotient num/den (num >= 0, den > 0), in lowest terms
Frac(num, den) == LET g == GCD(num, den) IN <<num \div g, den \div g>>

\* s without its k-th element
RemoveAt(s, k) == [i \in 1..(Len(s) - 1) |-> IF i < k THEN s[i] ELSE s[i + 1]]

\* the elements of a finite set of integers, ascending
RECURSIVE SortedSeq(_)
SortedSeq(S) ==
    IF S = {} THEN <<>>
    ELSE LET m == CHOOSE x \in S : \A y \in S : x <= y
         IN <<m>> \o SortedSeq(S \ {m})

\* all sequences over S of length 0..n
SeqsUpTo(S, n) == UNION {[1..k -> S] : k \in 0..n}

(***************************************************************************)
(* Module constants of app.py.                                             *)
(***************************************************************************)
PAYMENT_MAP ==
    (1 :> "Credit Card") @@ (2 :> "Cash") @@ (3 :> "No Charge") @@
    (4 :> "Dispute") @@ (0 :> "Unknown") @@ (6 :> "Voided Trip")

DAY_ORDER == <<"Monday", "Tuesday", "Wednesday", "Thursday", "Friday",
               "Saturday", "Sunday">>

(***************************************************************************)
(* Timestamps.  The trip file holds a pickup time as its calendar fields;  *)
(* pd.to_datetime turns it into an instant, and .dt.date, .dt.hour and     *)
(* .dt.day_name() read the instant back.                                   *)
(***************************************************************************)
MinutesPerHour == 60
HoursPerDay == 24
MinutesPerDay == MinutesPerHour * HoursPerDay

to_datetime(raw) == (raw.day * HoursPerDay + raw.hour) * MinutesPerHour + raw.minute

dt_date(ts) == ts \div MinutesPerDay

dt_hour(ts) == (ts \div MinutesPerHour) % HoursPerDay

dt_day_name(ts) == DAY_ORDER[(dt_date(ts) % 7) + 1]

(***************************************************************************)
(* The cleaned trip file.  It is written by the notebook of the repository *)
(* (main's error message at lines 124-127 names it), which derives         *)
(* pickup_hour, pickup_day_of_week and trip_duration_minutes from the raw  *)
(* trip rows; app.py reads these three columns and never computes them.    *)
(***************************************************************************)
notebook_clean(raw) ==
    LET pickup == to_datetime(raw.tpep_pickup_datetime)
        dropoff == to_datetime(raw.tpep_dropoff_datetime)
    IN [tpep_pickup_datetime |-> raw.tpep_pickup_datetime,
        tpep_dropoff_datetime |-> raw.tpep_dropoff_datetime,
        PULocationID |-> raw.PULocationID,
        payment_type |-> raw.payment_type,
        fare_amount |-> raw.fare_amount,
        total_amount |-> raw.total_amount,
        trip_distance |-> raw.trip_distance,
        trip_duration_minutes |-> dropoff - pickup,
        pickup_hour |-> dt_hour(pickup),
        pickup_day_of_week |-> dt_day_name(pickup)]

\* pd.read_parquet: the rows of the file under a RangeIndex 0..n-1
read_parquet(file) ==
    [i \in 1..Len(file) |-> [index |-> i - 1] @@ file[i]]

\* df["payment_type"].map(PAYMENT_MAP): NaN for a code that is not a key
map_payment(code) ==
    IF code \in DOMAIN PAYMENT_MAP THEN PAYMENT_MAP[code] ELSE NaN

\* a fillna that leaves NaN in place
fillna_skipped(value, fill) == value

fillna(value, fill) == IF value = NaN THEN fill ELSE value

\* load_trip_data whose loop over the two timestamp columns writes the
\* dropoff time into both
load_trip_data_one_column(file) ==
    LET frame == read_parquet(file)
    IN [i \in 1..Len(frame) |->
          [index |-> frame[i].index,
           tpep_pickup_datetime |-> to_datetime(frame[i].tpep_dropoff_datetime),
           tpep_dropoff_datetime |-> to_datetime(frame[i].tpep_dropoff_datetime),
           PULocationID |-> frame[i].PULocationID,
           payment_type |-> frame[i].payment_type,
           fare_amount |-> frame[i].fare_amount,
           total_amount |-> frame[i].total_amount,
           trip_distance |-> frame[i].trip_distance,
           trip_duration_minutes |-> frame[i].trip_duration_minutes,
           pickup_hour |-> frame[i].pickup_hour,
           pickup_day_of_week |-> frame[i].pickup_day_of_week,
           payment_label |-> fillna(map_payment(frame[i].payment_type), "Other")]]

load_trip_data(file) ==
    LET frame == read_parquet(file)
    IN [i \in 1..Len(frame) |->
          [index |-> frame[i].index,
           tpep_pickup_datetime |-> to_datetime(frame[i].tpep_pickup_datetime),
           tpep_dropoff_datetime |-> to_datetime(frame[i].tpep_dropoff_datetime),
           PULocationID |-> frame[i].PULocationID,
           payment_type |-> frame[i].payment_type,
           fare_amount |-> frame[i].fare_amount,
           total_amount |-> frame[i].total_amount,
           trip_distance |-> frame[i].trip_distance,
           trip_duration_minutes |-> frame[i].trip_duration_minutes,
           pickup_hour |-> frame[i].pickup_hour,
           pickup_day_of_week |-> frame[i].pickup_day_of_week,
           payment_label |-> fillna(map_payment(frame[i].payment_type), "Other")]]

\* pd.read_csv of the zone lookup: the rows as they are
load_zone_data(file) == file

(***************************************************************************)
(* apply_filters                                                           *)
(***************************************************************************)
\* apply_filters with the end of the date range left out
apply_filters_exclusive_end(d, start_date, end_date, hour_min, hour_max, payment_types) ==
    LET mask(r) ==
            /\ dt_date(r.tpep_pickup_datetime) >= start_date
            /\ dt_date(r.tpep_pickup_datetime) < end_date
            /\ r.pickup_hour >= hour_min
            /\ r.pickup_hour <= hour_max
            /\ (payment_types # <<>> => r.payment_label \in Range(payment_types))
    IN SelectSeq(d, mask)

\* apply_filters without the test "if payment_types:"
apply_filters_always_isin(d, start_date, end_date, hour_min, hour_max, payment_types) ==
    LET mask(r) ==
            /\ dt_date(r.tpep_pickup_datetime) >= start_date
            /\ dt_date(r.tpep_pickup_datetime) <= end_date
            /\ r.pickup_hour >= hour_min
            /\ r.pickup_hour <= hour_max
            /\ r.payment_label \in Range(payment_types)
    IN SelectSeq(d, mask)

apply_filters(d, start_date, end_date, hour_min, hour_max, payment_types) ==
    LET mask(r) ==
            /\ dt_date(r.tpep_pickup_datetime) >= start_date
            /\ dt_date(r.tpep_pickup_datetime) <= end_date
            /\ r.pickup_hour >= hour_min
            /\ r.pickup_hour <= hour_max
            /\ (payment_types # <<>> => r.payment_label \in Range(payment_types))
    IN SelectSeq(d, mask)

(***************************************************************************)
(* Grouping.  groupby sorts the group keys: integers ascending, strings in *)
(* Python's string order.                                                  *)
(***************************************************************************)
\* the payment labels and the weekday names in Python's string order
LABEL_SORTED == <<"Cash", "Credit Card", "Dispute", "No Charge", "Other",
                  "Unknown", "Voided Trip">>

DAY_SORTED == <<"Friday", "Monday", "Saturday", "Sunday", "Thursday",
                "Tuesday", "Wednesday">>

\* the position of x in the sequence order
Rank(order, x) == CHOOSE i \in 1..Len(order) : order[i] = x

\* the members of the set S of strings, in the order of the sequence order
SortedBy(order, S) ==
    LET ranks == SortedSeq({Rank(order, x) : x \in S})
    IN [i \in 1..Len(ranks) |-> order[ranks[i]]]

\* the number of rows of d whose column col holds key
GroupSize(d, col, key) == Cardinality({i \in 1..Len(d) : d[i][col] = key})

(***************************************************************************)
(* agg_top_zones                                                           *)
(***************************************************************************)
TOP_N == 10

\* df.groupby("PULocationID").size().reset_index(name="trip_count")
zone_counts(d) ==
    LET keys == SortedSeq({d[i].PULocationID : i \in 1..Len(d)})
    IN [i \in 1..Len(keys) |->
          [PULocationID |-> keys[i],
           trip_count |-> GroupSize(d, "PULocationID", keys[i])]]

\* the rows of one left row in a left merge on PULocationID = LocationID
RECURSIVE merge_row(_, _, _)
merge_row(left, zones, matched) ==
    IF zones = <<>>
    THEN IF matched THEN <<>>
         ELSE <<[PULocationID |-> left.PULocationID,
                 trip_count |-> left.trip_count,
                 LocationID |-> NaN, Zone |-> NaN, Borough |-> NaN]>>
    ELSE IF Head(zones).LocationID = left.PULocationID
         THEN <<[PULocationID |-> left.PULocationID,
                 trip_count |-> left.trip_count,
                 LocationID |-> Head(zones).LocationID,
                 Zone |-> Head(zones).Zone,
                 Borough |-> Head(zones).Borough]>>
              \o merge_row(left, Tail(zones), TRUE)
         ELSE merge_row(left, Tail(zones), matched)

\* zone_counts.merge(zones[...], left_on=..., right_on=..., how="left"),
\* before the new RangeIndex is put on
RECURSIVE merge_left(_, _)
merge_left(counts, zones) ==
    IF counts = <<>> THEN <<>>
    ELSE merge_row(Head(counts), zones, FALSE) \o merge_left(Tail(counts), zones)

merged_zones(d, zones) ==
    LET rows == merge_left(zone_counts(d), zones)
    IN [i \in 1..Len(rows) |-> [index |-> i - 1] @@ rows[i]]

\* the first position of s that holds the largest trip_count
FirstLargest(s) ==
    CHOOSE i \in 1..Len(s) :
        /\ \A j \in 1..Len(s) : s[j].trip_count <= s[i].trip_count
        /\ \A j \in 1..(i - 1) : s[j].trip_count < s[i].trip_count

\* head(n) in the place of nlargest(n, "trip_count")
nlargest_head(n, s) == SubSeq(s, 1, Min(n, Len(s)))

\* DataFrame.nlargest(n, "trip_count"), keep="first"
RECURSIVE nlargest(_, _)
nlargest(n, s) ==
    IF n = 0 \/ s = <<>> THEN <<>>
    ELSE LET i == FirstLargest(s)
         IN <<s[i]>> \o nlargest(n - 1, RemoveAt(s, i))

agg_top_zones(d, zones) ==
    LET top == nlargest(TOP_N, merged_zones(d, zones))
    IN [i \in 1..Len(top) |->
          [index |-> top[i].index, Zone |-> top[i].Zone,
           Borough |-> top[i].Borough, trip_count |-> top[i].trip_count]]

(***************************************************************************)
(* agg_fare_by_hour                                                        *)
(***************************************************************************)
\* the fare_amount of the rows of d with pickup_hour h, in the order of d
FaresOfHour(d, h) ==
    LET rows == SelectSeq(d, LAMBDA r : r.pickup_hour = h)
    IN [i \in 1..Len(rows) |-> rows[i].fare_amount]

\* a mean by integer division
mean_floor(values) ==
    IF values = <<>> THEN NaN ELSE <<SeqSum(values) \div Len(values), 1>>

\* Series.mean()
mean(values) == IF values = <<>> THEN NaN ELSE Frac(SeqSum(values), Len(values))

\* df.groupby("pickup_hour")["fare_amount"].mean().reset_index().rename(...)
fare_means(d) ==
    LET keys == SortedSeq({d[i].pickup_hour : i \in 1..Len(d)})
    IN [i \in 1..Len(keys) |->
          [index |-> i - 1, pickup_hour |-> keys[i],
           avg_fare |-> mean(FaresOfHour(d, keys[i]))]]

\* .sort_values("pickup_hour"): insertion of each row before the first row
\* with a larger hour
RECURSIVE insert_by_hour(_, _)
insert_by_hour(row, sorted) ==
    IF sorted = <<>> THEN <<row>>
    ELSE IF Head(sorted).pickup_hour > row.pickup_hour THEN <<row>> \o sorted
         ELSE <<Head(sorted)>> \o insert_by_hour(row, Tail(sorted))

RECURSIVE sort_by_hour(_)
sort_by_hour(s) ==
    IF s = <<>> THEN <<>>
    ELSE insert_by_hour(s[Len(s)], sort_by_hour(SubSeq(s, 1, Len(s) - 1)))

agg_fare_by_hour(d) == sort_by_hour(fare_means(d))

(***************************************************************************)
(* agg_payment_types                                                       *)
(***************************************************************************)
\* df.groupby("payment_label").size().reset_index(name="trip_count")
payment_sizes(d) ==
    LET keys == SortedBy(LABEL_SORTED, {d[i].payment_label : i \in 1..Len(d)})
    IN [i \in 1..Len(keys) |->
          [index |-> i - 1, payment_label |-> keys[i],
           trip_count |-> GroupSize(d, "payment_label", keys[i])]]

\* .sort_values("trip_count") without ascending=False
sort_values_asc(s) ==
    {t \in [1..Len(s) -> Range(s)] :
        /\ Range(t) = Range(s)
        /\ \A i \in 1..(Len(t) - 1) : t[i].trip_count <= t[i + 1].trip_count}

\* .sort_values("trip_count", ascending=False) with the default quicksort,
\* which is not stable: every descending arrangement of the rows
sort_values_desc(s) ==
    {t \in [1..Len(s) -> Range(s)] :
        /\ Range(t) = Range(s)
        /\ \A i \in 1..(Len(t) - 1) : t[i].trip_count >= t[i + 1].trip_count}

agg_payment_types(d) == sort_values_desc(payment_sizes(d))

(***************************************************************************)
(* agg_heatmap                                                             *)
(***************************************************************************)
\* df.groupby(["pickup_day_of_week", "pickup_hour"]).size().reset_index(...)
agg_heatmap(d) ==
    LET code(r) == Rank(DAY_SORTED, r.pickup_day_of_week) * HoursPerDay + r.pickup_hour
        keys == SortedSeq({code(d[i]) : i \in 1..Len(d)})
    IN [i \in 1..Len(keys) |->
          [index |-> i - 1,
           pickup_day_of_week |-> DAY_SORTED[keys[i] \div HoursPerDay],
           pickup_hour |-> keys[i] % HoursPerDay,
           trip_count |-> Cardinality({j \in 1..Len(d) : code(d[j]) = keys[i]})]]

(***************************************************************************)
(* Key metrics and the distance sample.                                    *)
(***************************************************************************)
Column(d, col) == [i \in 1..Len(d) |-> d[i][col]]

key_metrics(d) ==
    [total_trips |-> Len(d),
     avg_fare |-> mean(Column(d, "fare_amount")),
     total_revenue |-> SeqSum(Column(d, "total_amount")),
     avg_distance |-> mean(Column(d, "trip_distance")),
     avg_duration |-> mean(Column(d, "trip_duration_minutes"))]

\* a small linear congruential generator stands for numpy's Mersenne
\* Twister: a fixed function from the generator's state to its next state
RNG_MODULUS == 65537
RNG_MULTIPLIER == 75
RNG_INCREMENT == 74

rng_next(state) == (state * RNG_MULTIPLIER + RNG_INCREMENT) % RNG_MODULUS

\* np.random.RandomState(seed)
RandomState(seed) == seed % RNG_MODULUS

RECURSIVE rng_advance(_, _)
rng_advance(state, draws) ==
    IF draws = 0 THEN state ELSE rng_advance(rng_next(state), draws - 1)

\* a shuffle of pool that takes one draw per element
RECURSIVE shuffle(_, _)
shuffle(pool, state) ==
    IF pool = <<>> THEN <<>>
    ELSE LET s1 == rng_next(state)
             k == (s1 % Len(pool)) + 1
         IN <<pool[k]>> \o shuffle(RemoveAt(pool, k), s1)

\* rs.choice(length, size=n, replace=False): the first n of a permutation
choice(length, n, state) ==
    SubSeq(shuffle([i \in 1..length |-> i], state), 1, n)

\* the row cap of the distance sample: 200_000 in app.py, scaled down so
\* that a view of MaxRows rows exceeds it
SAMPLE_CAP == 2
SAMPLE_SEED == 42

\* a sampling that draws from numpy's global generator, as
\* df.sample(n=sample_size) without random_state does
distance_sample_unseeded(d, global) ==
    LET sample_size == Min(SAMPLE_CAP, Len(d))
        picks == choice(Len(d), sample_size, global)
    IN [rows |-> [i \in 1..sample_size |-> d[picks[i]]],
        np_random |-> rng_advance(global, Len(d))]

\* sample_size = min(200_000, len(df)); df.sample(n=sample_size, random_state=42):
\* the rows drawn, and numpy's global generator afterwards, which a sampling
\* with a random_state of its own leaves alone
distance_sample(d, global) ==
    LET sample_size == Min(SAMPLE_CAP, Len(d))
        picks == choice(Len(d), sample_size, RandomState(SAMPLE_SEED))
    IN [rows |-> [i \in 1..sample_size |-> d[picks[i]]],
        np_random |-> global]

(***************************************************************************)
(* Inputs.                                                                 *)
(***************************************************************************)
\* the calendar fields of the instant ts
Calendar(ts) ==
    [day |-> ts \div MinutesPerDay,
     hour |-> (ts \div MinutesPerHour) % HoursPerDay,
     minute |-> ts % MinutesPerHour]

\* one row of the raw trip data the notebook cleans: a trip of a quarter
\* of an hour
RawTrip(day, hour, minute, loc, code, fare, dist) ==
    LET pickup == [day |-> day, hour |-> hour, minute |-> minute]
    IN [tpep_pickup_datetime |-> pickup,
        tpep_dropoff_datetime |-> Calendar(to_datetime(pickup) + 15),
        PULocationID |-> loc,
        payment_type |-> code,
        fare_amount |-> fare,
        total_amount |-> fare + 2,
        trip_distance |-> dist]

\* the cleaned files with up to n rows over the raw trips of the set trips
CleanFiles(trips, n) == SeqsUpTo({notebook_clean(t) : t \in trips}, n)

\* the first rows of taxi_zone_lookup.csv
ZONE_LOOKUP ==
    <<[LocationID |-> 1, Zone |-> "Newark Airport", Borough |-> "EWR"],
      [LocationID |-> 2, Zone |-> "Jamaica Bay", Borough |-> "Queens"],
      [LocationID |-> 3, Zone |-> "Allerton/Pelham Gardens", Borough |-> "Bronx"],
      [LocationID |-> 4, Zone |-> "Alphabet City", Borough |-> "Manhattan"]>>

\* the zone lookups drawn as input: any of the first MaxZoneRows rows, each
\* LocationID at most once (LocationID is the key of the lookup)
ZoneTables ==
    {SelectSeq(SubSeq(ZONE_LOOKUP, 1, Min(MaxZoneRows, Len(ZONE_LOOKUP))),
               LAMBDA z : z.LocationID \in S) :
        S \in SUBSET (1..Min(MaxZoneRows, Len(ZONE_LOOKUP)))}

\* the trips of the files main() is run on
MainTrips ==
    {RawTrip(0, 5, 0, 1, 1, 40, 1),
     RawTrip(0, 17, 50, 3, 2, 20, 31),
     RawTrip(1, 17, 0, 1, 5, 15, 2)}

\* the hour ranges tried on the slider
HourRanges == {<<0, 23>>, <<6, 23>>, <<0, 5>>}

\* the sub-lists of the list s, in the order of s
SubLists(s) ==
    {SelectSeq(s, LAMBDA x : x \in S) : S \in SUBSET Range(s)}

NoCriteria == [date_range |-> <<>>, hour_range |-> <<0, 23>>, selected_payments |-> <<>>]

NoFile == [exists |-> FALSE, rows |-> <<>>]

\* the values of main's locals before a run has set them
RunLocalsClear ==
    /\ criteria = NoCriteria
    /\ df = <<>>
    /\ warned = FALSE
    /\ invoked = {}
    /\ metrics = <<>>
    /\ top_zones = <<>>
    /\ fare_by_hour = <<>>
    /\ df_sample = <<>>
    /\ payment_counts = <<>>
    /\ heatmap_data = <<>>

Init ==
    /\ pc = "start"
    /\ parquet \in {NoFile} \cup {[exists |-> TRUE, rows |-> f] : f \in CleanFiles(MainTrips, MaxRows)}
    /\ zones_csv \in ZoneTables
    /\ df_full = <<>>
    /\ df_zones = <<>>
    /\ RunLocalsClear
    /\ np_random = 1
    /\ prev_view = <<>>
    /\ prev_sample = <<>>

(***************************************************************************)
(* main(), one action per step of the script.                              *)
(***************************************************************************)
\* lines 123-128: the cleaned file is missing
StartMissing ==
    /\ pc = "start"
    /\ ~parquet.exists
    /\ pc' = "stopped"
    /\ UNCHANGED <<parquet, zones_csv, df_full, df_zones, criteria, df, warned,
                   invoked, metrics, top_zones, fare_by_hour, df_sample,
                   payment_counts, heatmap_data, np_random, prev_view, prev_sample>>

\* lines 130-131
LoadData ==
    /\ pc = "start"
    /\ parquet.exists
    /\ df_full' = load_trip_data(parquet.rows)
    /\ df_zones' = load_zone_data(zones_csv)
    /\ pc' = "sidebar"
    /\ UNCHANGED <<parquet, zones_csv, criteria, df, warned,
                   invoked, metrics, top_zones, fare_by_hour, df_sample,
                   payment_counts, heatmap_data, np_random, prev_view, prev_sample>>

\* sorted(df_full["payment_label"].dropna().unique().tolist())
all_payment_types(d) ==
    SortedBy(LABEL_SORTED, {d[i].payment_label : i \in 1..Len(d)})

\* what st.sidebar.date_input can return between min_date and max_date: no
\* date, the first date of a range being picked, or both dates of a range
DateInputs(d) ==
    LET dates == {dt_date(d[i].tpep_pickup_datetime) : i \in 1..Len(d)}
        min_date == CHOOSE x \in dates : \A y \in dates : x <= y
        max_date == CHOOSE x \in dates : \A y \in dates : y <= x
    IN {t \in SeqsUpTo(min_date..max_date, 2) : Len(t) = 2 => t[1] <= t[2]}

\* lines 145-152 on a trip file without rows: min_date is NaN and
\* st.sidebar.date_input raises
SidebarRaises ==
    /\ pc = "sidebar"
    /\ df_full = <<>>
    /\ pc' = "error"
    /\ UNCHANGED <<parquet, zones_csv, df_full, df_zones, criteria, df, warned,
                   invoked, metrics, top_zones, fare_by_hour, df_sample,
                   payment_counts, heatmap_data, np_random, prev_view, prev_sample>>

\* lines 145-178: the user's choices in the sidebar
Sidebar ==
    /\ pc = "sidebar"
    /\ df_full # <<>>
    /\ \E date_range \in DateInputs(df_full), hour_range \in HourRanges,
          selected_payments \in SubLists(all_payment_types(df_full)) :
            criteria' = [date_range |-> date_range, hour_range |-> hour_range,
                         selected_payments |-> selected_payments]
    /\ pc' = "apply_filters"
    /\ UNCHANGED <<parquet, zones_csv, df_full, df_zones, df, warned,
                   invoked, metrics, top_zones, fare_by_hour, df_sample,
                   payment_counts, heatmap_data, np_random, prev_view, prev_sample>>

\* lines 155-158 and 182 when date_input returned fewer than two dates:
\* start_date and end_date are the tuple itself, and comparing the pickup
\* dates with a tuple raises
ApplyFiltersRaises ==
    /\ pc = "apply_filters"
    /\ Len(criteria.date_range) # 2
    /\ pc' = "error"
    /\ UNCHANGED <<parquet, zones_csv, df_full, df_zones, criteria, df, warned,
                   invoked, metrics, top_zones, fare_by_hour, df_sample,
                   payment_counts, heatmap_data, np_random, prev_view, prev_sample>>

\* lines 155-156, 168 and 182
ApplyFilters ==
    /\ pc = "apply_filters"
    /\ Len(criteria.date_range) = 2
    /\ df' = apply_filters(df_full, criteria.date_range[1], criteria.date_range[2],
                           criteria.hour_range[1], criteria.hour_range[2],
                           criteria.selected_payments)
    /\ pc' = "check_empty"
    /\ UNCHANGED <<parquet, zones_csv, df_full, df_zones, criteria, warned,
                   invoked, metrics, top_zones, fare_by_hour, df_sample,
                   payment_counts, heatmap_data, np_random, prev_view, prev_sample>>

\* main() without the st.stop() of the empty view
CheckEmpty_no_stop ==
    /\ pc = "check_empty"
    /\ warned' = (df = <<>>)
    /\ pc' = "metrics"
    /\ UNCHANGED <<parquet, zones_csv, df_full, df_zones, criteria, df,
                   invoked, metrics, top_zones, fare_by_hour, df_sample,
                   payment_counts, heatmap_data, np_random, prev_view, prev_sample>>

\* lines 184-186
CheckEmpty ==
    /\ pc = "check_empty"
    /\ IF df = <<>>
       THEN warned' = TRUE /\ pc' = "stopped"
       ELSE warned' = warned /\ pc' = "metrics"
    /\ UNCHANGED <<parquet, zones_csv, df_full, df_zones, criteria, df,
                   invoked, metrics, top_zones, fare_by_hour, df_sample,
                   payment_counts, heatmap_data, np_random, prev_view, prev_sample>>

\* lines 190-196
KeyMetrics ==
    /\ pc = "metrics"
    /\ metrics' = key_metrics(df)
    /\ invoked' = invoked \cup {"key_metrics"}
    /\ pc' = "top_zones"
    /\ UNCHANGED <<parquet, zones_csv, df_full, df_zones, criteria, df, warned,
                   top_zones, fare_by_hour, df_sample,
                   payment_counts, heatmap_data, np_random, prev_view, prev_sample>>

\* line 204
TopZones ==
    /\ pc = "top_zones"
    /\ top_zones' = agg_top_zones(df, df_zones)
    /\ invoked' = invoked \cup {"agg_top_zones"}
    /\ pc' = "fare_by_hour"
    /\ UNCHANGED <<parquet, zones_csv, df_full, df_zones, criteria, df, warned,
                   metrics, fare_by_hour, df_sample,
                   payment_counts, heatmap_data, np_random, prev_view, prev_sample>>

\* line 230
FareByHour ==
    /\ pc = "fare_by_hour"
    /\ fare_by_hour' = agg_fare_by_hour(df)
    /\ invoked' = invoked \cup {"agg_fare_by_hour"}
    /\ pc' = "sample"
    /\ UNCHANGED <<parquet, zones_csv, df_full, df_zones, criteria, df, warned,
                   metrics, top_zones, df_sample,
                   payment_counts, heatmap_data, np_random, prev_view, prev_sample>>

\* lines 253-254
DistanceSample ==
    /\ pc = "sample"
    /\ LET drawn == distance_sample(df, np_random)
       IN /\ df_sample' = drawn.rows
          /\ np_random' = drawn.np_random
    /\ invoked' = invoked \cup {"sample"}
    /\ pc' = "payment_types"
    /\ UNCHANGED <<parquet, zones_csv, df_full, df_zones, criteria, df, warned,
                   metrics, top_zones, fare_by_hour,
                   payment_counts, heatmap_data, prev_view, prev_sample>>

\* line 276
PaymentTypes ==
    /\ pc = "payment_types"
    /\ \E sorted \in agg_payment_types(df) : payment_counts' = sorted
    /\ invoked' = invoked \cup {"agg_payment_types"}
    /\ pc' = "heatmap"
    /\ UNCHANGED <<parquet, zones_csv, df_full, df_zones, criteria, df, warned,
                   metrics, top_zones, fare_by_hour, df_sample,
                   heatmap_data, np_random, prev_view, prev_sample>>

\* line 299
Heatmap ==
    /\ pc = "heatmap"
    /\ heatmap_data' = agg_heatmap(df)
    /\ invoked' = invoked \cup {"agg_heatmap"}
    /\ pc' = "done"
    /\ UNCHANGED <<parquet, zones_csv, df_full, df_zones, criteria, df, warned,
                   metrics, top_zones, fare_by_hour, df_sample,
                   payment_counts, np_random, prev_view, prev_sample>>

\* a widget changes and Streamlit runs the script again from the top; what
\* the last run sampled is remembered for comparison
Rerun ==
    /\ pc \in {"done", "stopped", "error"}
    /\ pc' = "start"
    /\ prev_view' = IF "sample" \in invoked THEN df ELSE prev_view
    /\ prev_sample' = IF "sample" \in invoked THEN df_sample ELSE prev_sample
    /\ criteria' = NoCriteria
    /\ df' = <<>>
    /\ warned' = FALSE
    /\ invoked' = {}
    /\ metrics' = <<>>
    /\ top_zones' = <<>>
    /\ fare_by_hour' = <<>>
    /\ df_sample' = <<>>
    /\ payment_counts' = <<>>
    /\ heatmap_data' = <<>>
    /\ UNCHANGED <<parquet, zones_csv, df_full, df_zones, np_random>>

Next ==
    \/ StartMissing
    \/ LoadData
    \/ SidebarRaises
    \/ Sidebar
    \/ ApplyFiltersRaises
    \/ ApplyFilters
    \/ CheckEmpty
    \/ KeyMetrics
    \/ TopZones
    \/ FareByHour
    \/ DistanceSample
    \/ PaymentTypes
    \/ Heatmap
    \/ Rerun

Spec == Init /\ [][Next]_vars

(***************************************************************************)
(* The loader alone.                                                       *)
(***************************************************************************)
LoadTrips ==
    {RawTrip(day, hour, 50, 1, 1, 20, 1) : day \in 0..MaxDay, hour \in {0, 23}}
    \cup {RawTrip(0, 5, 50, 1, code, 20, 1) : code \in 0..MaxCode}

InitLoad ==
    /\ pc = "start"
    /\ parquet \in {[exists |-> TRUE, rows |-> f] : f \in CleanFiles(LoadTrips, MaxLoadRows)}
    /\ zones_csv = ZONE_LOOKUP
    /\ df_full = <<>>
    /\ df_zones = <<>>
    /\ RunLocalsClear
    /\ np_random = 1
    /\ prev_view = <<>>
    /\ prev_sample = <<>>

NextLoad == LoadData

SpecLoad == InitLoad /\ [][NextLoad]_vars

(***************************************************************************)
(* apply_filters alone, on any criteria.                                   *)
(***************************************************************************)
FilterTrips ==
    {RawTrip(day, hour, 0, 1, code, 20, 1) :
        day \in 0..MaxFilterDay, hour \in {5, 17}, code \in {1, 5}}

FilterCriteria ==
    [date_range : (0..MaxFilterDay) \X (0..MaxFilterDay),
     hour_range : HourRanges,
     selected_payments : SubLists(<<"Cash", "Credit Card", "Other">>)]

InitFilter ==
    /\ pc = "apply_filters"
    /\ \E f \in CleanFiles(FilterTrips, MaxFilterRows) :
          /\ parquet = [exists |-> TRUE, rows |-> f]
          /\ df_full = load_trip_data(f)
    /\ zones_csv = ZONE_LOOKUP
    /\ df_zones = load_zone_data(ZONE_LOOKUP)
    /\ criteria \in FilterCriteria
    /\ df = <<>>
    /\ warned = FALSE
    /\ invoked = {}
    /\ metrics = <<>>
    /\ top_zones = <<>>
    /\ fare_by_hour = <<>>
    /\ df_sample = <<>>
    /\ payment_counts = <<>>
    /\ heatmap_data = <<>>
    /\ np_random = 1
    /\ prev_view = <<>>
    /\ prev_sample = <<>>

NextFilter == ApplyFilters

SpecFilter == InitFilter /\ [][NextFilter]_vars

(***************************************************************************)
(* The aggregators alone: main() has reached the call of one aggregator    *)
(* with the sidebar left at its defaults, which select every trip.         *)
(***************************************************************************)
STEPS == <<"metrics", "top_zones", "fare_by_hour", "sample", "payment_types", "heatmap">>

CALLS == <<"key_metrics", "agg_top_zones", "agg_fare_by_hour", "sample",
           "agg_payment_types", "agg_heatmap">>

\* the defaults of the three widgets, lines 149, 166 and 177
DefaultCriteria(d) ==
    LET dates == {dt_date(d[i].tpep_pickup_datetime) : i \in 1..Len(d)}
        min_date == CHOOSE x \in dates : \A y \in dates : x <= y
        max_date == CHOOSE x \in dates : \A y \in dates : y <= x
    IN [date_range |-> <<min_date, max_date>>,
        hour_range |-> <<0, 23>>,
        selected_payments |-> all_payment_types(d)]

\* the state of a first run of main() on file and zones that has come to step
RunAt(step, file, zones) ==
    LET done(s) == Rank(STEPS, s) < Rank(STEPS, step)
    IN /\ pc = step
       /\ parquet = [exists |-> TRUE, rows |-> file]
       /\ zones_csv = zones
       /\ df_full = load_trip_data(file)
       /\ df_zones = load_zone_data(zones)
       /\ criteria = DefaultCriteria(df_full)
       /\ df = apply_filters(df_full, criteria.date_range[1], criteria.date_range[2],
                             criteria.hour_range[1], criteria.hour_range[2],
                             criteria.selected_payments)
       /\ warned = FALSE
       /\ invoked = {CALLS[i] : i \in {j \in 1..Len(STEPS) : done(STEPS[j])}}
       /\ metrics = IF done("metrics") THEN key_metrics(df) ELSE <<>>
       /\ top_zones = IF done("top_zones") THEN agg_top_zones(df, df_zones) ELSE <<>>
       /\ fare_by_hour = IF done("fare_by_hour") THEN agg_fare_by_hour(df) ELSE <<>>
       /\ df_sample = IF done("sample") THEN distance_sample(df, 1).rows ELSE <<>>
       /\ payment_counts = <<>>
       /\ heatmap_data = <<>>
       /\ np_random = 1
       /\ prev_view = <<>>
       /\ prev_sample = <<>>

\* one trip from each of the locations 1..n, then the trips of extra
ZoneFile(n, extra) ==
    LET trip(loc) == notebook_clean(RawTrip(0, 5, 0, loc, 1, 20, 1))
    IN [i \in 1..(n + Len(extra)) |->
          IF i <= n THEN trip(i) ELSE trip(extra[i - n])]

InitTopZones ==
    \E n \in (MaxLoc - 2)..MaxLoc, extra \in SeqsUpTo(1..MaxLoc, MaxExtra), zones \in ZoneTables :
        RunAt("top_zones", ZoneFile(n, extra), zones)

NextTopZones == TopZones

SpecTopZones == InitTopZones /\ [][NextTopZones]_vars

FareTrips ==
    {RawTrip(0, hour, 0, 1, 1, fare, 1) : hour \in {5, 17, 23}, fare \in {15, 20, 40}}

InitFare ==
    \E f \in CleanFiles(FareTrips, MaxRows) :
        f # <<>> /\ RunAt("fare_by_hour", f, ZONE_LOOKUP)

NextFare == FareByHour

SpecFare == InitFare /\ [][NextFare]_vars

PaymentTrips ==
    {RawTrip(0, 5, 0, 1, code, 20, 1) : code \in {0, 1, 2, 5}}

InitPayment ==
    \E f \in CleanFiles(PaymentTrips, MaxRows) :
        f # <<>> /\ RunAt("payment_types", f, ZONE_LOOKUP)

NextPayment == PaymentTypes

SpecPayment == InitPayment /\ [][NextPayment]_vars

(***************************************************************************)
(* The claims.                                                             *)
(***************************************************************************)
\* the positions of main() behind the test of the empty view
AfterCheck == {"stopped", "metrics", "top_zones", "fare_by_hour", "sample",
               "payment_types", "heatmap", "done"}

\* the number of rows of d that satisfy Test
CountRows(d, Test(_)) == Cardinality({i \in 1..Len(d) : Test(d[i])})

\* C1: apply_filters returns exactly the rows whose pickup date lies in
\* [start_date, end_date], whose pickup_hour lies in [hour_min, hour_max] and
\* whose payment_label is among payment_labels unless payment_labels is
\* empty, in the order they have in the input.
C1_FilterKeepsExactlyThePassingRows ==
    pc = "check_empty" =>
        LET start_date == criteria.date_range[1]
            end_date == criteria.date_range[2]
            hour_min == criteria.hour_range[1]
            hour_max == criteria.hour_range[2]
            labels == Range(criteria.selected_payments)
            Passes(r) ==
                /\ start_date * MinutesPerDay <= r.tpep_pickup_datetime
                /\ r.tpep_pickup_datetime < (end_date + 1) * MinutesPerDay
                /\ r.pickup_hour \in hour_min..hour_max
                /\ (labels = {} \/ r.payment_label \in labels)
        IN /\ \A i \in 1..Len(df_full) :
                 (df_full[i] \in Range(df)) <=> Passes(df_full[i])
           /\ Range(df) \subseteq Range(df_full)
           /\ \A i \in 1..(Len(df) - 1) : df[i].index < df[i + 1].index

C1_Witness ==
    /\ pc = "check_empty"
    /\ Len(df_full) = 2
    /\ Len(df) = 1
    /\ df[1].index = 1
    /\ criteria.selected_payments # <<>>
    /\ criteria.date_range[1] = criteria.date_range[2]

\* C2: with an empty payment_labels apply_filters returns the rows it
\* returns for the list of all labels present in the data, and keeps every
\* row that passes the date and the hour range.
C2_EmptyLabelsMeanAllLabels ==
    (pc = "check_empty" /\ criteria.selected_payments = <<>>) =>
        /\ df = apply_filters(df_full, criteria.date_range[1], criteria.date_range[2],
                              criteria.hour_range[1], criteria.hour_range[2],
                              all_payment_types(df_full))
        /\ \A i \in 1..Len(df_full) :
              ( /\ dt_date(df_full[i].tpep_pickup_datetime)
                      \in criteria.date_range[1]..criteria.date_range[2]
                /\ df_full[i].pickup_hour
                      \in criteria.hour_range[1]..criteria.hour_range[2] )
              => df_full[i] \in Range(df)

C2_Witness ==
    /\ pc = "check_empty"
    /\ criteria.selected_payments = <<>>
    /\ Len(df) = 2
    /\ df[1].payment_label # df[2].payment_label

\* C3: after load_trip_data a trip with payment type 1, 2, 3, 4, 0 or 6 is
\* labelled Credit Card, Cash, No Charge, Dispute, Unknown or Voided Trip,
\* a trip with any other code is labelled Other, and every row of the file
\* is in the result.
C3_PaymentLabels ==
    pc = "sidebar" =>
        /\ Len(df_full) = Len(parquet.rows)
        /\ \A i \in 1..Len(df_full) :
              LET code == parquet.rows[i].payment_type
                  label == df_full[i].payment_label
              IN /\ df_full[i].payment_type = code
                 /\ code = 1 => label = "Credit Card"
                 /\ code = 2 => label = "Cash"
                 /\ code = 3 => label = "No Charge"
                 /\ code = 4 => label = "Dispute"
                 /\ code = 0 => label = "Unknown"
                 /\ code = 6 => label = "Voided Trip"
                 /\ code \notin {1, 2, 3, 4, 0, 6} => label = "Other"

C3_Witness ==
    /\ pc = "sidebar"
    /\ Len(df_full) = 2
    /\ df_full[1].payment_type = 5
    /\ df_full[1].payment_label = "Other"
    /\ df_full[2].payment_type = 6
    /\ df_full[2].payment_label = "Voided Trip"

C5_EmptyViewStopsTheRun ==
    /\ invoked # {} => df # <<>>
    /\ (parquet.exists /\ pc \in AfterCheck /\ df = <<>>) =>
           (pc = "stopped" /\ warned /\ invoked = {})

C5_Witness ==
    /\ pc = "stopped"
    /\ warned
    /\ df = <<>>
    /\ df_full # <<>>
    /\ Len(criteria.date_range) = 2

\* C6: agg_top_zones returns at most 10 rows, one per distinct pickup
\* location, each with the number of trips from that location, in descending
\* order of that number; no location left out has more trips than a
\* returned one; a location without a row in the zone table is returned
\* like the others, with Zone and Borough NaN.
C6_TopZones ==
    pc = "fare_by_hour" =>
        LET ids == SortedSeq({df[i].PULocationID : i \in 1..Len(df)})
            trips(loc) == CountRows(df, LAMBDA r : r.PULocationID = loc)
            loc(row) == ids[row.index + 1]
            returned == {loc(top_zones[i]) : i \in 1..Len(top_zones)}
            known == {df_zones[i].LocationID : i \in 1..Len(df_zones)}
        IN /\ Len(top_zones) <= 10
           /\ \A i \in 1..Len(top_zones) : top_zones[i].index \in 0..(Len(ids) - 1)
           /\ \A i, j \in 1..Len(top_zones) :
                 i # j => top_zones[i].index # top_zones[j].index
           /\ \A i \in 1..Len(top_zones) :
                 top_zones[i].trip_count = trips(loc(top_zones[i]))
           /\ \A i \in 1..(Len(top_zones) - 1) :
                 top_zones[i].trip_count >= top_zones[i + 1].trip_count
           /\ \A id \in Range(ids) \ returned : \A i \in 1..Len(top_zones) :
                 trips(id) <= top_zones[i].trip_count
           /\ Range(ids) \ returned # {} => Len(top_zones) = 10
           /\ \A i \in 1..Len(top_zones) :
                 IF loc(top_zones[i]) \in known
                 THEN \E z \in 1..Len(df_zones) :
                         /\ df_zones[z].LocationID = loc(top_zones[i])
                         /\ top_zones[i].Zone = df_zones[z].Zone
                         /\ top_zones[i].Borough = df_zones[z].Borough
                 ELSE top_zones[i].Zone = NaN /\ top_zones[i].Borough = NaN

C6_Witness ==
    /\ pc = "fare_by_hour"
    /\ Cardinality({df[i].PULocationID : i \in 1..Len(df)}) > 10
    /\ Len(top_zones) = 10
    /\ top_zones[1].Zone = NaN
    /\ top_zones[1].trip_count = 3
    /\ top_zones[1].index = 10
    /\ \E i \in 1..Len(top_zones) : top_zones[i].Zone = "Jamaica Bay"

\* the rows of d as pairs of the columns a and b
Pairs(d, a, b) == [i \in 1..Len(d) |-> <<d[i][a], d[i][b]>>]

\* C7: agg_fare_by_hour returns one row per pickup_hour that occurs in the
\* view and no other, in ascending order of the hour, with the mean
\* fare_amount of the trips of that hour; the trips (5, 40), (5, 20),
\* (17, 15) give [(5, 30.0), (17, 15.0)].
C7_FareByHour ==
    pc = "sample" =>
        /\ {fare_by_hour[i].pickup_hour : i \in 1..Len(fare_by_hour)}
              = {df[i].pickup_hour : i \in 1..Len(df)}
        /\ \A i \in 1..(Len(fare_by_hour) - 1) :
              fare_by_hour[i].pickup_hour < fare_by_hour[i + 1].pickup_hour
        /\ \A i \in 1..Len(fare_by_hour) :
              LET trips == SelectSeq(df, LAMBDA r : r.pickup_hour = fare_by_hour[i].pickup_hour)
                  total == SeqSum(Column(trips, "fare_amount"))
                  avg == fare_by_hour[i].avg_fare
              IN avg[2] > 0 /\ avg[1] * Len(trips) = total * avg[2]
        /\ Pairs(df, "pickup_hour", "fare_amount") = <<<<5, 40>>, <<5, 20>>, <<17, 15>>>>
              => Pairs(fare_by_hour, "pickup_hour", "avg_fare")
                    = <<<<5, <<30, 1>>>>, <<17, <<15, 1>>>>>>

C7_Witness ==
    /\ pc = "sample"
    /\ Pairs(df, "pickup_hour", "fare_amount") = <<<<5, 40>>, <<5, 20>>, <<17, 15>>>>
    /\ Len(fare_by_hour) = 2

\* C8: agg_payment_types returns one row per payment_label that occurs in
\* the view, with the number of trips of that label, in descending order of
\* that number; the numbers add up to the size of the view; the labels
\* Credit Card, Cash, Credit Card give [(Credit Card, 2), (Cash, 1)].
C8_PaymentBreakdown ==
    pc = "heatmap" =>
        /\ {payment_counts[i].payment_label : i \in 1..Len(payment_counts)}
              = {df[i].payment_label : i \in 1..Len(df)}
        /\ \A i, j \in 1..Len(payment_counts) :
              i # j => payment_counts[i].payment_label # payment_counts[j].payment_label
        /\ \A i \in 1..Len(payment_counts) :
              payment_counts[i].trip_count =
                 CountRows(df, LAMBDA r : r.payment_label = payment_counts[i].payment_label)
        /\ SeqSum(Column(payment_counts, "trip_count")) = Len(df)
        /\ \A i \in 1..(Len(payment_counts) - 1) :
              payment_counts[i].trip_count >= payment_counts[i + 1].trip_count
        /\ Column(df, "payment_label") = <<"Credit Card", "Cash", "Credit Card">>
              => Pairs(payment_counts, "payment_label", "trip_count")
                    = <<<<"Credit Card", 2>>, <<"Cash", 1>>>>

C8_Witness ==
    /\ pc = "heatmap"
    /\ Column(df, "payment_label") = <<"Credit Card", "Cash", "Credit Card">>
    /\ Len(payment_counts) = 2

\* C9: the distance sample of a view with more rows than the cap has
\* exactly as many rows as the cap, all of them rows of the view and no row
\* twice; the sample of a view within the cap holds every row of the view
\* once; and a run whose view is the view of the run before draws the
\* sample of the run before.
C9_DistanceSample ==
    "sample" \in invoked =>
        /\ Len(df) > SAMPLE_CAP => Len(df_sample) = SAMPLE_CAP
        /\ Len(df) <= SAMPLE_CAP =>
              (Len(df_sample) = Len(df) /\ Range(df_sample) = Range(df))
        /\ Range(df_sample) \subseteq Range(df)
        /\ \A i, j \in 1..Len(df_sample) :
              i # j => df_sample[i].index # df_sample[j].index
        /\ prev_view = df => prev_sample = df_sample

C9_Witness ==
    /\ "sample" \in invoked
    /\ Len(df) > SAMPLE_CAP
    /\ Len(df_sample) = SAMPLE_CAP
    /\ prev_view = df

====
